---- MODULE Spec2Model ----
(***************************************************************************)
(* Agent Bridge: the relay core of src/bridge.js.                          *)
(*                                                                         *)
(* src/bridge.js holds two relay programs:                                 *)
(*   - the pub/sub relay (lines 1-296): one process, configured by         *)
(*     AGENT_NAME and EXTRA_AGENTS, handling every payload of a Redis      *)
(*     channel in sub.on("message");                                       *)
(*   - the stream relay (lines 298-528): one process per agent, configured *)
(*     by AGENT_ID, reading a Redis stream through its own consumer group  *)
(*     and handling each entry in processMessage / injectToOpenClaw.       *)
(* src/publish.js is the manual publish tool: one run publishes at most    *)
(* one message and exits.                                                  *)
(* A behaviour of this module is a run of one deployment: `variant` is     *)
(* chosen by Init and says which of the programs runs.                     *)
(*                                                                         *)
(* Representation of JavaScript values.                                    *)
(*   - A property that may be undefined is an option: None (<<>>) is       *)
(*     undefined, Some(x) (<<x>>) is the value x.                          *)
(*   - Strings are TLA+ strings.  The module text is ASCII, so a hangul    *)
(*     word is written as its romanisation in braces: "{choa}" stands for  *)
(*     U+CD08 U+C544, "{sera}" for U+C138 U+B77C, "{sori}" for             *)
(*     U+C18C U+B9AC.  Substring and regular-expression tests are          *)
(*     computed from Occurs, which lists for every text of the vocabulary  *)
(*     the lower-cased patterns that occur in it.                          *)
(*   - The decimal string of an integer n (Number.toString, as the stream  *)
(*     relay writes it on the wire) is Numeral(n).                         *)
(***************************************************************************)
EXTENDS Integers, Sequences, FiniteSets, TLC

VARIABLES variant, clock, last, lastAdmit, tool,
          envP, pcP, exitP, connsP, lastInject, childrenP,
          envS, binS, pcS, exitS, connsS, lastInjectTime, childrenS, stream, pending,
          outbox

varsP == <<envP, pcP, exitP, connsP, lastInject, childrenP>>
varsS == <<envS, binS, pcS, exitS, connsS, lastInjectTime, childrenS, stream, pending,
           outbox>>
vars == <<variant, clock, last, lastAdmit, tool, varsP, varsS>>

(***************************************************************************)
(* Bounds of the model                                                     *)
(***************************************************************************)
\* Granularity of the modelled clock, in milliseconds.
TickMs == 2500
\* Number of clock ticks after the first reading.
MaxTicks == 2
\* First reading of Date.now(): any epoch time is at least a cooldown window
\* after lastInject's initial 0.
Epoch == 10000
\* Child processes in flight per relay process.
MaxChildren == 2
\* Entries a consumer group has not acknowledged or has still to expect from
\* the relays, beyond which no producer outside the relays adds another.
MaxStream == 1

(***************************************************************************)
(* Program constants                                                       *)
(***************************************************************************)
COOLDOWN_MS == 5000
MAX_DEPTH == 3

(***************************************************************************)
(* JavaScript values                                                       *)
(***************************************************************************)
None == <<>>
Some(x) == <<x>>

\* x || 0 for an optional number: undefined and 0 are falsy.
OrZero(opt) == IF opt = None THEN 0 ELSE opt[1]

\* x || "" for an optional string: undefined and "" are falsy.
OrEmpty(opt) == IF opt = None THEN "" ELSE opt[1]

\* `${x}` in a template literal: undefined renders as "undefined".
Render(opt) == IF opt = None THEN "undefined" ELSE opt[1]

\* String.prototype.toLowerCase on the identities of the vocabulary.
toLowerCase(s) ==
    CASE s = "ChoA" -> "choa"
      [] s = "Sera" -> "sera"
      [] s = "SoRi" -> "sori"
      [] OTHER -> s

\* The vocabulary of message texts.
TextHello == "hello"
TextChoa == "{choa}ya bap meogeosseo?"
TextSera == "{sera}ya test!"
TextAll == "ChoA, {sera}, {sori}: sync?"

Texts == {TextHello, TextChoa, TextSera, TextAll}

\* The patterns (lower-cased) that occur in the lower-cased text.
Occurs(text) ==
    CASE text = TextChoa -> {"{choa}", "{choa}ya"}
      [] text = TextSera -> {"{sera}", "{sera}ya"}
      [] text = TextAll -> {"choa", "{sera}", "{sori}"}
      [] OTHER -> {}

(***************************************************************************)
(* Pub/sub relay: configuration                                            *)
(***************************************************************************)
\* envP.AGENT_NAME is process.env.AGENT_NAME ("" when unset); envP.EXTRA_AGENTS
\* is the list of the comma-separated entries of process.env.EXTRA_AGENTS, each
\* entry reduced to its agentId (the part before ":", the only part read).
\* envP.BOT_TOKEN says whether process.env.BOT_TOKEN is set, and
\* envP.EXTRA_BOT_TOKENS lists the agentIds of the "agentId:token" entries of
\* process.env.EXTRA_BOT_TOKENS (an entry without an agentId is skipped).
NoEnv ==
    [AGENT_NAME |-> "", EXTRA_AGENTS |-> <<>>, BOT_TOKEN |-> FALSE,
     EXTRA_BOT_TOKENS |-> <<>>]

PubSubEnvs ==
    { NoEnv,
      [NoEnv EXCEPT !.AGENT_NAME = "choa", !.BOT_TOKEN = TRUE],
      [NoEnv EXCEPT !.AGENT_NAME = "ChoA", !.EXTRA_AGENTS = <<"Sera">>,
                    !.EXTRA_BOT_TOKENS = <<"Sera">>],
      [NoEnv EXCEPT !.AGENT_NAME = "sori", !.EXTRA_AGENTS = <<"sori">>] }

AGENT == toLowerCase(envP.AGENT_NAME)

\* The agentIds pushed by the EXTRA_AGENTS loop: empty ids are skipped.
ExtraIds ==
    LET ids == SelectSeq(envP.EXTRA_AGENTS, LAMBDA id : id # "")
    IN  [i \in 1..Len(ids) |-> toLowerCase(ids[i])]

localAgents == <<AGENT>> \o ExtraIds

extraAgentConfigs(a) == \E i \in 1..Len(ExtraIds) : ExtraIds[i] = a

(***************************************************************************)
(* Pub/sub relay: wire payloads and JSON.parse                             *)
(***************************************************************************)
\* A raw payload: text that is not JSON, the JSON null, a JSON primitive
\* (number, string, boolean) or a JSON object with some of the fields.
NoFields ==
    [from |-> None, text |-> None, depth |-> None, type |-> None,
     ts |-> None, timestamp |-> None]

BadPayloads ==
    { [json |-> k, fields |-> NoFields] : k \in {"invalid", "null", "primitive"} }

PubSubFroms == {None, Some("choa"), Some("sera"), Some("test"), Some("{choa}")}
PubSubTexts == {None, Some(TextHello), Some(TextChoa), Some(TextAll)}
PubSubDepths == {None, Some(0), Some(2), Some(3)}

\* Chat messages carry any depth; the echo branch never reads depth, so echo
\* payloads come without one or with the ceiling.
ObjectPayloads ==
    { [json |-> "object",
       fields |-> [NoFields EXCEPT !.from = f, !.text = t, !.depth = d]] :
         f \in PubSubFroms, t \in PubSubTexts, d \in PubSubDepths }
    \cup
    { [json |-> "object",
       fields |-> [NoFields EXCEPT !.from = f, !.text = t, !.depth = d,
                                   !.type = Some("echo")]] :
         f \in PubSubFroms, t \in PubSubTexts, d \in {None, Some(MAX_DEPTH)} }

Payloads == BadPayloads \cup ObjectPayloads

\* JSON.parse(raw): throws on text that is not JSON; otherwise the value.  A
\* property read on a primitive yields undefined, so a primitive reads as an
\* object without fields; a property read on null throws.
JSONParse(raw) ==
    [ threw |-> raw.json = "invalid",
      isNull |-> raw.json = "null",
      msg |-> IF raw.json = "object" THEN raw.fields ELSE NoFields ]

\* JSON.stringify of an object literal, given as the list of its <<key, value>>
\* members: the payload whose members are the listed keys (a later member of
\* the same key wins); a key that is not listed is absent from the payload.
Member(members, key) ==
    LET at == { i \in 1..Len(members) : members[i][1] = key }
    IN  IF at = {} THEN None
        ELSE Some(members[CHOOSE i \in at : \A j \in at : j <= i][2])

JSONStringify(members) ==
    [ json |-> "object",
      fields |-> [k \in DOMAIN NoFields |-> Member(members, k)] ]

\* function publish(text, depth = 0): the payload handed to pub.publish.
publish(text, depth, now) ==
    JSONStringify(<< <<"from", AGENT>>, <<"text", text>>, <<"depth", depth>>,
                     <<"ts", now>> >>)

\* The agents whose bot startAutoEcho watches: the main agent when BOT_TOKEN
\* is set, and the lower-cased agentIds of EXTRA_BOT_TOKENS.
autoEchoAgents ==
    (IF envP.BOT_TOKEN THEN {AGENT} ELSE {})
    \cup { toLowerCase(envP.EXTRA_BOT_TOKENS[i]) : i \in DOMAIN envP.EXTRA_BOT_TOKENS }

\* The texts of the messages a watched bot posts in the group (msg.text is
\* not empty).
BotTexts == {TextHello, TextChoa}

\* The payload poll() publishes for a message of the bot of agentName.
autoEchoPayload(agentName, text, now) ==
    JSONStringify(<< <<"type", "echo">>, <<"from", agentName>>, <<"text", text>>,
                     <<"ts", now>> >>)

\* Chunks of standard input and String.prototype.trim on them.
Chunks == {"\n", "hello\n", "  {sera}ya test!\n"}

trim(chunk) ==
    CASE chunk = "\n" -> ""
      [] chunk = "hello\n" -> TextHello
      [] chunk = "  {sera}ya test!\n" -> TextSera
      [] OTHER -> chunk

(***************************************************************************)
(* Pub/sub relay: sub.on("message")                                        *)
(***************************************************************************)
\* Mutant: the sender is compared with AGENT_NAME as configured, not lower-cased.
IsOwnMessage_RawName(msg) ==
    msg.from = Some(envP.AGENT_NAME) /\ msg.type # Some("echo")

\* ignore own messages (for non-echo)
IsOwnMessage(msg) == msg.from = Some(AGENT) /\ msg.type # Some("echo")

agentAliases(a) ==
    CASE a = "choa" -> {"choa", "{choa}"}
      [] a = "sera" -> {"sera", "{sera}"}
      [] a = "sori" -> {"sori", "{sori}"}
      [] a = "nichris" -> {"nichris", "{nikeuriseu}"}
      [] OTHER -> {}

\* Mutant: the sender is resolved by exact id only, not by alias.
senderAgent_ExactId(msg) ==
    LET senderLower == toLowerCase(msg.from[1])
        hits == SelectSeq(localAgents, LAMBDA a : a = senderLower)
    IN  IF hits = <<>> THEN None ELSE Some(hits[1])

\* localAgents.find(...): the first local agent that is the sender, by id or alias.
senderAgent(msg) ==
    LET senderLower == toLowerCase(msg.from[1])
        hits == SelectSeq(localAgents,
                          LAMBDA a : a = senderLower \/ senderLower \in agentAliases(a))
    IN  IF hits = <<>> THEN None ELSE Some(hits[1])

\* The local agents the echo loop injects into, in loop order.
EchoTargets(msg) == SelectSeq(localAgents, LAMBDA t : Some(t) # senderAgent(msg))

\* One execFile call of the echo loop.
EchoInjection(msg, target) ==
    [ target |-> target,
      agentFlag |-> extraAgentConfigs(target),
      deliver |-> FALSE,
      kind |-> "echo",
      text |-> [tag |-> "echo", from |-> Render(msg.from), depth |-> None,
                text |-> Render(msg.text)] ]

\* depth guard
DepthGuard(msg) == OrZero(msg.depth) >= MAX_DEPTH

\* Mutant: the elapsed milliseconds are compared with the window in seconds.
InCooldown_Seconds(now, lastAt) == now - lastAt < COOLDOWN_MS \div 1000

\* Mutant: the distance between the two times is compared, whichever is later.
InCooldown_Distance(now, lastAt) ==
    now - lastAt < COOLDOWN_MS /\ lastAt - now < COOLDOWN_MS

\* cooldown
InCooldown(now, lastAt) == now - lastAt < COOLDOWN_MS

mentionPatterns(a) ==
    CASE a = "choa" -> {"{choa}", "choa"}
      [] a = "sera" -> {"{sera}", "sera"}
      [] a = "sori" -> {"{sori}", "sori"}
      [] a = "nichris" -> {"{nikeuriseu}", "nichris"}
      [] OTHER -> {}

\* localAgents.filter(a => p && p.test(text))
mentionedAgents(text) ==
    SelectSeq(localAgents, LAMBDA a : mentionPatterns(a) \cap Occurs(text) # {})

\* One execFile call of the injection loop.
MessageInjection(msg, target) ==
    [ target |-> target,
      agentFlag |-> extraAgentConfigs(target),
      deliver |-> TRUE,
      kind |-> "message",
      text |-> [tag |-> "agent-bridge", from |-> Render(msg.from),
                depth |-> Some(OrZero(msg.depth) + 1),
                text |-> OrEmpty(msg.text)] ]

\* The execFile calls of the two loops, in loop order.
EchoInjections(msg) ==
    [i \in 1..Len(EchoTargets(msg)) |-> EchoInjection(msg, EchoTargets(msg)[i])]

MessageInjections(msg, targets) ==
    [i \in 1..Len(targets) |-> MessageInjection(msg, targets[i])]

\* What the execFile callback of a child depends on: the echo callback reads
\* msg.text.slice, the message callback reads stdout only.  The target of the
\* child is used in its log line alone.
ChildClasses == {"message", "echo", "echo-notext"}

ChildClass(msg) ==
    IF msg.type # Some("echo") THEN "message"
    ELSE IF msg.text = None THEN "echo-notext"
    ELSE "echo"

\* The handler as a function of the payload, the reading of Date.now() and
\* lastInject: what it returns through (outcome), whether it throws, the new
\* lastInject and the execFile calls it makes, in order.
Handled(outcome, threw, lastAt, inj) ==
    [outcome |-> outcome, threw |-> threw, lastInject |-> lastAt, inj |-> inj]

onMessage(raw, now, lastAt) ==
    LET parsed == JSONParse(raw)
        msg == parsed.msg
        targets == mentionedAgents(OrEmpty(msg.text))
    IN  IF parsed.threw THEN Handled("DecodeError", FALSE, lastAt, <<>>)
        ELSE IF parsed.isNull THEN Handled("TypeError", TRUE, lastAt, <<>>)
        ELSE IF IsOwnMessage(msg) THEN Handled("SelfOrigin", FALSE, lastAt, <<>>)
        ELSE IF msg.type = Some("echo") THEN
            IF msg.from = None THEN Handled("TypeError", TRUE, lastAt, <<>>)
            ELSE Handled("Echo", FALSE, lastAt, EchoInjections(msg))
        ELSE IF DepthGuard(msg) THEN Handled("DepthExceeded", FALSE, lastAt, <<>>)
        ELSE IF InCooldown(now, lastAt) THEN Handled("Cooldown", FALSE, lastAt, <<>>)
        ELSE IF targets = <<>> THEN Handled("NotMentioned", FALSE, now, <<>>)
        ELSE Handled("Injected", FALSE, now, MessageInjections(msg, targets))

(***************************************************************************)
(* Stream relay: configuration                                             *)
(***************************************************************************)
\* envS[r] is process.env.AGENT_ID of relay process r (None when unset).  One
\* relay alone, or a mesh of two relays on the same stream.
StreamEnvs == { <<None>>, <<None, Some("sera")>> }

Relays == DOMAIN envS

Mesh == variant = "stream" /\ Len(envS) > 1

\* const OPENCLAW_BIN = process.env.OPENCLAW_BIN || findOpenClaw() of relay r:
\* a file that runs, the empty string (what findOpenClaw returns when its
\* search finds nothing; spawn throws on it), or a path that cannot be
\* executed (spawn returns and the child emits 'error').
Injectors == {"openclaw", "", "/nonexistent/openclaw"}

OPENCLAW_BIN(r) == binS[r]

\* const AGENT_ID = process.env.AGENT_ID || 'choa'
AGENT_ID(r) == IF envS[r] = None \/ envS[r] = Some("") THEN "choa" ELSE envS[r][1]

MENTION_MAP(a) ==
    CASE a = "choa" -> {"{choa}", "@choonjang_bot", "{choa}ya", "{choa}hante",
                        "{choa}ga", "{choa}neun", "{choa}do"}
      [] a = "sera" -> {"{sera}", "@sera_choonjang_bot", "{sera}ya", "{sera}hante",
                        "{sera}ga", "{sera}neun", "{sera}do"}
      [] a = "nicris" -> {"{nikeuriseu}", "@nicrees_choonjang_bot",
                          "{nikeuriseu}hante", "{nikeuriseu}ga"}
      [] a = "sori" -> {"{sori}", "@sori_choonjang_bot", "{sori}ya", "{sori}hante",
                        "{sori}ga", "{sori}neun", "{sori}do"}
      [] OTHER -> {}

\* patterns.some(p => lower.includes(p.toLowerCase()))
isMentioned(text, agentId) ==
    \E p \in MENTION_MAP(agentId) : toLowerCase(p) \in Occurs(text)

(***************************************************************************)
(* Stream relay: entries and fieldsToObject                                *)
(***************************************************************************)
\* Number.prototype.toString and parseInt on decimal strings.
Numeral(n) == [num |-> n]
parseInt(s) == s.num

\* The flat field list of a stream entry, as XADD takes and XREADGROUP returns it.
FieldList(from, text, timestamp, depth) ==
    (IF from = None THEN <<>> ELSE <<"from", from[1]>>)
    \o (IF text = None THEN <<>> ELSE <<"text", text[1]>>)
    \o (IF timestamp = None THEN <<>> ELSE <<"timestamp", timestamp[1]>>)
    \o (IF depth = None THEN <<>> ELSE <<"depth", depth[1]>>)

\* obj[fields[i]] = fields[i + 1] for i = 0, 2, ...: a later pair overrides.
Field(fields, key) ==
    LET at == { i \in 1..Len(fields) : i % 2 = 1 /\ fields[i] = key }
        i == CHOOSE j \in at : \A k \in at : k <= j
    IN  IF at = {} \/ i + 1 > Len(fields) THEN None ELSE Some(fields[i + 1])

fieldsToObject(fields) ==
    [ from |-> Field(fields, "from"), text |-> Field(fields, "text"),
      timestamp |-> Field(fields, "timestamp"), depth |-> Field(fields, "depth"),
      type |-> Field(fields, "type") ]

\* What producers add to the stream of a relay alone (the relay of choa): chat
\* lines from outside that mention choa at every depth, a line that mentions
\* somebody else, choa's own lines, and entries without a `from` or without a
\* `text`.
ExternalEntries ==
    { FieldList(Some("test"), Some(TextChoa), Some(Numeral(0)), d) :
        d \in {None, Some(Numeral(0)), Some(Numeral(2)), Some(Numeral(3))} }
    \cup
    { FieldList(Some("choa"), Some(TextChoa), Some(Numeral(0)), Some(Numeral(d))) :
        d \in {0, 3} }
    \cup
    { FieldList(Some("test"), Some(TextSera), Some(Numeral(0)), Some(Numeral(0))),
      FieldList(None, Some(TextChoa), Some(Numeral(0)), Some(Numeral(0))),
      FieldList(Some("test"), None, Some(Numeral(0)), Some(Numeral(0))) }

\* Originating chat lines: depth 0, from outside the mesh, mentioning sera (a
\* relay alone is given lines that mention choa, and the replies of the agents
\* mention either agent).
OriginEntries ==
    { FieldList(Some("test"), Some(TextSera), Some(Numeral(0)), Some(Numeral(0))) }

\* The trimmed stdout of the injector: nothing, or a reply addressed to an
\* agent.
Responses == {"", TextChoa, TextSera}
ExitCodes == {0, 1}

\* What a previous run of a relay alone has left unacknowledged (entries
\* delivered to its consumer when it was ended): nothing, a chat line that
\* mentions choa, or one of choa's own lines followed by such a chat line.
PendingLists ==
    { <<>>,
      << [fields |-> FieldList(Some("test"), Some(TextChoa), Some(Numeral(0)),
                               Some(Numeral(0))), hops |-> 0] >>,
      << [fields |-> FieldList(Some("choa"), Some(TextChoa), Some(Numeral(0)),
                               Some(Numeral(1))), hops |-> 0],
         [fields |-> FieldList(Some("test"), Some(TextChoa), Some(Numeral(0)),
                               Some(Numeral(0))), hops |-> 0] >> }

(***************************************************************************)
(* Stream relay: processMessage and injectToOpenClaw                       *)
(***************************************************************************)
\* const depth = parseInt(message.depth || '0')
messageDepth(message) == IF message.depth = None THEN 0 ELSE parseInt(message.depth[1])

\* The spawn of injectToOpenClaw.
StreamInjection(r, message) ==
    [ target |-> AGENT_ID(r),
      agentFlag |-> AGENT_ID(r) # "sera",
      deliver |-> TRUE,
      kind |-> "message",
      text |-> [tag |-> "Agent Bridge", from |-> Render(message.from), depth |-> None,
                text |-> Render(message.text)] ]

\* Mutant: injectToOpenClaw without its cooldown check.
injectToOpenClaw_NoCooldown(r, message, now, lastAt) ==
    IF messageDepth(message) >= MAX_DEPTH
    THEN Handled("DepthExceeded", FALSE, now, <<>>)
    ELSE IF OPENCLAW_BIN(r) = ""
         THEN Handled("InjectFailed", FALSE, now, <<StreamInjection(r, message)>>)
    ELSE Handled("Injected", FALSE, now, <<StreamInjection(r, message)>>)

\* Mutant: injectToOpenClaw comparing the depth with > instead of >=.
injectToOpenClaw_DepthOffByOne(r, message, now, lastAt) ==
    IF InCooldown(now, lastAt) THEN Handled("Cooldown", FALSE, lastAt, <<>>)
    ELSE IF messageDepth(message) > MAX_DEPTH
         THEN Handled("DepthExceeded", FALSE, now, <<>>)
    ELSE IF OPENCLAW_BIN(r) = ""
         THEN Handled("InjectFailed", FALSE, now, <<StreamInjection(r, message)>>)
    ELSE Handled("Injected", FALSE, now, <<StreamInjection(r, message)>>)

\* injectToOpenClaw(message, redis): the outcome, the new lastInjectTime and
\* the spawn calls made.  A spawn that throws is caught and logged ("Failed to
\* inject"): lastInjectTime is set already, and there is no child.
injectToOpenClaw(r, message, now, lastAt) ==
    IF InCooldown(now, lastAt) THEN Handled("Cooldown", FALSE, lastAt, <<>>)
    ELSE IF messageDepth(message) >= MAX_DEPTH
         THEN Handled("DepthExceeded", FALSE, now, <<>>)
    ELSE IF OPENCLAW_BIN(r) = ""
         THEN Handled("InjectFailed", FALSE, now, <<StreamInjection(r, message)>>)
    ELSE Handled("Injected", FALSE, now, <<StreamInjection(r, message)>>)

\* Skip own messages
IsOwnEntry(r, msg) == msg.from = Some(AGENT_ID(r))

\* processMessage(id, msg, redis); every path sends one XACK.
processMessage(r, msg, now, lastAt) ==
    IF IsOwnEntry(r, msg) THEN Handled("SelfOrigin", FALSE, lastAt, <<>>)
    ELSE IF isMentioned(OrEmpty(msg.text), AGENT_ID(r))
         THEN injectToOpenClaw(r, msg, now, lastAt)
    ELSE Handled("NotMentioned", FALSE, lastAt, <<>>)

\* The XACK commands processMessage sends for the entry it is given: one
\* before the return for an own message, otherwise one at its end, after
\* injectToOpenClaw has returned (it returns once the child is spawned and
\* catches what spawn throws).  The commands are sent on the connection the
\* reads use and are not awaited.
xacks(r, msg) == IF IsOwnEntry(r, msg) THEN 1 ELSE 1

\* The pending entries list of the consumer after processMessage has handled
\* its i-th entry: XACK removes it.  Commands of one connection are executed
\* in the order they are sent, so the next XREADGROUP sees the list without it.
xack(list, i, acks) ==
    IF acks > 0
    THEN [j \in 1..(Len(list) - 1) |-> IF j < i THEN list[j] ELSE list[j + 1]]
    ELSE list

\* Mutant: the response is republished with the depth of the consumed entry.
nextDepth_Unchanged(depth) == depth

\* const nextDepth = depth + 1
nextDepth(depth) == depth + 1

\* Mutant: the response is republished whatever the exit code.
Republished_AnyExit(r, child, code, response, now) ==
    IF response # ""
    THEN << FieldList(Some(AGENT_ID(r)), Some(response), Some(Numeral(now)),
                      Some(Numeral(nextDepth(child.depth)))) >>
    ELSE <<>>

\* The close handler of a child: the entry it republishes, if any.
Republished(r, child, code, response, now) ==
    IF response # "" /\ code = 0
    THEN << FieldList(Some(AGENT_ID(r)), Some(response), Some(Numeral(now)),
                      Some(Numeral(nextDepth(child.depth)))) >>
    ELSE <<>>

(***************************************************************************)
(* Manual publish tool: src/publish.js                                     *)
(***************************************************************************)
\* One run of the tool: process.env.AGENT_ID, process.argv[2] (None when there
\* is no argument) and standard input (None when it is a terminal, else
\* everything read up to its end).
ToolRuns ==
    [ AGENT_ID : {None, Some("sera")},
      argv : {None, Some(""), Some(TextChoa)},
      stdin : {None} \cup { Some(c) : c \in Chunks } ]

NoTool == [AGENT_ID |-> None, argv |-> None, stdin |-> None]

\* The run of the tool beside a relay: somebody who is no agent of the relay
\* (AGENT_ID=test) publishes a chat line that mentions choa.  The tool is run
\* beside the relays that host choa and can inject: the pub/sub relay started
\* with AGENT_NAME=choa, and a stream relay alone whose OPENCLAW_BIN runs.
\* There the server accepts the PUBLISH; a refused one is studied on the tool
\* alone.
BusRun == [AGENT_ID |-> Some("test"), argv |-> Some(TextChoa), stdin |-> None]

\* const CHANNEL = 'team-chat' of publish.js, the channel the README test
\* command names too.
publishCHANNEL == "team-chat"

\* process.env.CHANNEL || "agent-bridge" of the pub/sub relay, CHANNEL unset.
CHANNEL == "agent-bridge"

\* const STREAM = 'team-chat' of the stream relay: the key of a stream, which
\* XADD appends to and XREADGROUP reads.
STREAM == "team-chat"

\* The relay processes that are up: the pub/sub relay once subscribed, a
\* stream relay in its pending or read loop.
Running ==
    IF variant = "pubsub" THEN { p \in {1} : pcP = "subscribed" }
    ELSE { r \in Relays : pcS[r] \in {"pending", "listening", "polled"} }

\* The processes a PUBLISH on the channel is delivered to: the connections
\* subscribed to it at that moment, and nothing is kept for later.  The
\* pub/sub relay subscribes to CHANNEL, so it receives what it publishes
\* itself; the stream relay subscribes to nothing and reads the stream
\* STREAM, which a PUBLISH does not append to.
Subscribers(channel) ==
    IF variant = "pubsub" THEN { p \in Running : CHANNEL = channel } ELSE {}

\* The payload of the test command of the README.
ReadmePayload ==
    JSONStringify(<< <<"from", "test">>, <<"text", TextSera>>, <<"timestamp", 0>>,
                     <<"depth", 0>> >>)

\* const AGENT_ID = process.env.AGENT_ID || 'choa' of publish.js.
publishAGENT_ID ==
    IF tool.run.AGENT_ID = None \/ tool.run.AGENT_ID = Some("") THEN "choa"
    ELSE tool.run.AGENT_ID[1]

\* Mutant: readStdin resolves with the data as read, not trimmed.
readStdin_NoTrim(stdin) == stdin

\* readStdin(): null on a terminal, else the trimmed data.
readStdin(stdin) == IF stdin = None THEN None ELSE Some(trim(stdin[1]))

\* const text = process.argv[2] || await readStdin()
ManualText(run) == IF OrEmpty(run.argv) # "" THEN run.argv ELSE readStdin(run.stdin)

\* The payload of main, published on CHANNEL.
ManualPayload(text, now) ==
    JSONStringify(<< <<"from", publishAGENT_ID>>, <<"text", text>>,
                     <<"timestamp", now>>, <<"depth", 0>> >>)

(***************************************************************************)
(* The record of the step just taken                                       *)
(***************************************************************************)
\* The Loop Guard admitted the envelope: the pub/sub handler passed its three
\* guards (the mention check comes after them), injectToOpenClaw passed both of
\* its guards.
Admitted(op, outcome) ==
    outcome \in {"Injected", "InjectFailed"} \/ (op = "message" /\ outcome = "NotMentioned")

\* lastAdmit[p] is the clock reading at which relay process p last admitted an
\* envelope, None before its first admission (the pub/sub relay is process 1).
Logged(p, op, outcome, now) ==
    IF Admitted(op, outcome) THEN [lastAdmit EXCEPT ![p] = Some(now)] ELSE lastAdmit

\* An envelope: the five fields of the data model.
Envelope(from, text, timestamp, depth, kind) ==
    [from |-> from, text |-> text, timestamp |-> timestamp, depth |-> depth,
     kind |-> kind]

Idle ==
    [ op |-> "idle", relay |-> "", msg |-> NoFields, json |-> "", now |-> 0,
      before |-> 0, after |-> 0, outcome |-> "", threw |-> FALSE, inj |-> <<>>,
      hops |-> 0, child |-> <<>>, repub |-> <<>>, proc |-> 0, prior |-> None,
      sent |-> None, wire |-> None, failed |-> FALSE, acks |-> 0, phase |-> "",
      receivers |-> {}, running |-> {}, left |-> 0, held |-> 0, unacked |-> 0 ]

(***************************************************************************)
(* Pub/sub relay: actions                                                  *)
(***************************************************************************)
\* Module load up to the Redis connections: the AGENT check exits before them.
PubSubStart ==
    /\ variant = "pubsub" /\ pcP = "start"
    /\ IF AGENT = ""
       THEN pcP' = "exited" /\ exitP' = 1 /\ connsP' = 0
       ELSE pcP' = "connecting" /\ exitP' = exitP /\ connsP' = 2
    /\ last' = Idle
    /\ UNCHANGED <<tool, variant, clock, lastAdmit, envP, lastInject, childrenP, varsS>>

\* The subscribe callback: an error exits with status 1.
PubSubSubscribed(err) ==
    /\ variant = "pubsub" /\ pcP = "connecting"
    /\ IF err
       THEN pcP' = "exited" /\ exitP' = 1
       ELSE pcP' = "subscribed" /\ exitP' = exitP
    /\ last' = Idle
    /\ UNCHANGED <<tool, variant, clock, lastAdmit, envP, connsP, lastInject, childrenP, varsS>>

\* childrenP counts the execFile children in flight, by class.
InFlight(children) ==
    children["message"] + children["echo"] + children["echo-notext"]

Spawned(children, class, n) == [children EXCEPT ![class] = @ + n]

\* The steps that PUBLISH: the tool and the README command ("publish"), the
\* stdin listener and the auto-echo poller of the relay.
PublishOps == {"publish", "stdin", "autoecho"}

\* The payload reaches the message listener: any payload somebody publishes on
\* CHANNEL while the event loop is idle, or the payload just published when
\* the relay is among its receivers.
Arrives(raw) ==
    IF last.op \in PublishOps THEN 1 \in last.receivers /\ last.wire = Some(raw)
    ELSE last.op = "idle" /\ raw \in Payloads

\* What a PUBLISH of the step just taken has put on the wire.
Published ==
    IF last.op \in PublishOps /\ last.wire # None THEN {last.wire[1]} ELSE {}

\* sub.on("message", ...) for one payload.  An error thrown by the listener is
\* uncaught: the process ends with status 1.
PubSubOnMessage(raw) ==
    /\ variant = "pubsub" /\ pcP = "subscribed" /\ Arrives(raw)
    /\ LET r == onMessage(raw, clock, lastInject)
       IN  /\ lastAdmit' = Logged(1, "message", r.outcome, clock)
           /\ InFlight(childrenP) + Len(r.inj) <= MaxChildren
           /\ lastInject' = r.lastInject
           /\ childrenP' = Spawned(childrenP, ChildClass(JSONParse(raw).msg), Len(r.inj))
           /\ pcP' = IF r.threw THEN "crashed" ELSE pcP
           /\ exitP' = IF r.threw THEN 1 ELSE exitP
           /\ last' = [Idle EXCEPT !.op = "message", !.relay = AGENT, !.proc = 1,
                                   !.prior = lastAdmit[1],
                                   !.msg = JSONParse(raw).msg, !.json = raw.json,
                                   !.now = clock, !.before = lastInject,
                                   !.after = r.lastInject, !.outcome = r.outcome,
                                   !.threw = r.threw, !.inj = r.inj]
    /\ UNCHANGED <<tool, variant, clock, envP, connsP, varsS>>

\* The 'message' event of the subscriber connection.
PubSubMessage == \E raw \in Payloads \cup Published : PubSubOnMessage(raw)

\* The execFile callback of child i.  The echo callback logs
\* msg.text.slice(0, 50) when there is no error, which throws for a payload
\* without text; the message callback only logs.
CallbackThrows(class, err) == class = "echo-notext" /\ ~err

PubSubCallback(class, err) ==
    /\ variant = "pubsub" /\ pcP = "subscribed" /\ last.op = "idle"
    /\ childrenP[class] > 0
    /\ childrenP' = [childrenP EXCEPT ![class] = @ - 1]
    /\ pcP' = IF CallbackThrows(class, err) THEN "crashed" ELSE pcP
    /\ exitP' = IF CallbackThrows(class, err) THEN 1 ELSE exitP
    /\ last' = [Idle EXCEPT !.op = "callback", !.relay = AGENT,
                            !.outcome = class, !.failed = err,
                            !.threw = CallbackThrows(class, err)]
    /\ UNCHANGED <<tool, variant, clock, lastAdmit, envP, connsP, lastInject, varsS>>

\* process.stdin.on("data", ...): a chunk that is not blank is published at
\* depth 0.  The listener is installed at module load: it publishes before the
\* subscription is confirmed too.  last.sent is the envelope the relay sends, last.wire the payload
\* handed to pub.publish.
PubSubStdin(chunk) ==
    /\ variant = "pubsub" /\ pcP \in {"connecting", "subscribed"} /\ last.op = "idle"
    /\ LET text == trim(chunk)
       IN  last' = [Idle EXCEPT !.op = "stdin", !.relay = AGENT, !.now = clock,
                                !.outcome = chunk,
                                !.sent = IF text = "" THEN None
                                         ELSE Some(Envelope(AGENT, text, clock, 0,
                                                            "message")),
                                !.wire = IF text = "" THEN None
                                         ELSE Some(publish(text, 0, clock)),
                                !.running = Running,
                                !.receivers = IF text = "" THEN {}
                                              ELSE Subscribers(CHANNEL)]
    /\ UNCHANGED <<tool, variant, clock, lastAdmit, varsP, varsS>>

\* poll() of startAutoEcho has read an update with a message the bot of
\* agentName posted in the group: it is published as an echo, without depth.
PubSubAutoEcho(agentName, text) ==
    /\ variant = "pubsub" /\ pcP \in {"connecting", "subscribed"} /\ last.op = "idle"
    /\ agentName \in autoEchoAgents
    /\ last' = [Idle EXCEPT !.op = "autoecho", !.relay = AGENT, !.now = clock,
                            !.outcome = text,
                            !.wire = Some(autoEchoPayload(agentName, text, clock)),
                            !.running = Running,
                            !.receivers = Subscribers(CHANNEL)]
    /\ UNCHANGED <<tool, variant, clock, lastAdmit, varsP, varsS>>

\* SIGINT / SIGTERM: disconnect and exit(0).
PubSubShutdown ==
    /\ variant = "pubsub" /\ pcP \in {"connecting", "subscribed"} /\ last.op = "idle"
    /\ pcP' = "exited" /\ exitP' = 0
    /\ last' = Idle
    /\ UNCHANGED <<tool, variant, clock, lastAdmit, envP, connsP, lastInject, childrenP, varsS>>

(***************************************************************************)
(* Stream relay: actions                                                   *)
(***************************************************************************)
\* The answers of Redis to XGROUP CREATE: the group is created, it exists
\* already (BUSYGROUP), or another error.
GroupReplies == {"OK", "BUSYGROUP", "ERR"}

\* COUNT of the XREADGROUP of the pending loop (id '0') and of the read loop
\* (id '>').
PENDING_COUNT == 10
READ_COUNT == 5

Min(a, b) == IF a < b THEN a ELSE b

\* The entries of the stream the consumer group of relay r has not delivered.
Unread(r) == { i \in DOMAIN stream : r \notin stream[i].seen }

\* The first READ_COUNT of them: what one XREADGROUP with id '>' delivers.
Taken(r) ==
    { i \in Unread(r) : Cardinality({ j \in Unread(r) : j <= i }) <= READ_COUNT }

\* The reply to XREADGROUP with id '>': the entries it delivers, in order.  The
\* server puts them on the pending entries list of the consumer when it
\* executes the command.
Batch(r) ==
    LET tagged == [i \in DOMAIN stream |->
                     [fields |-> stream[i].fields, hops |-> stream[i].hops,
                      take |-> i \in Taken(r)]]
        taken == SelectSeq(tagged, LAMBDA e : e.take)
    IN  [k \in DOMAIN taken |-> [fields |-> taken[k].fields, hops |-> taken[k].hops]]

\* The entries of the stream after that delivery: an entry every consumer
\* group has delivered is of no further interest.
Delivered(r) ==
    LET marked == [i \in DOMAIN stream |->
                     IF i \in Taken(r) THEN [stream[i] EXCEPT !.seen = @ \cup {r}]
                     ELSE stream[i]]
    IN  SelectSeq(marked, LAMBDA e : e.seen # Relays)

\* The relays blocked in the XREADGROUP of the read loop: the command is sent,
\* nothing was there to deliver, and no reply is on its way.  The server
\* leaves what such a connection sends after the command unread until the
\* command returns.
Waiting == { r \in Relays : pcS[r] = "listening" /\ pending[r] = <<>> }

\* The relay processes whose main() is in one of its loops.
Looping == { r \in Relays : pcS[r] \in {"pending", "listening", "polled"} }

\* The XADD commands the relays of W have sent while blocked, in the order of
\* the relays.
Queued(W) ==
    (IF 1 \in W THEN outbox[1] ELSE <<>>) \o (IF 2 \in W THEN outbox[2] ELSE <<>>)

\* The server executes the XADD of the entries of out (records of fields and
\* hops) while the relays of W are blocked in XREADGROUP: the first entry is
\* delivered to the consumers of W, whose reads return with it, and the
\* commands those connections had sent behind their reads are executed next.
Serve(out, W) ==
    IF out = <<>>
    THEN [stream |-> stream, pending |-> pending, outbox |-> outbox]
    ELSE LET first == [fields |-> out[1].fields, hops |-> out[1].hops, seen |-> W]
             later == Tail(out) \o Queued(W)
         IN  [stream |-> stream
                         \o (IF W = Relays THEN <<>> ELSE <<first>>)
                         \o [k \in DOMAIN later |->
                               [fields |-> later[k].fields, hops |-> later[k].hops,
                                seen |-> {}]],
              pending |-> [r \in Relays |-> IF r \in W THEN <<out[1]>> ELSE pending[r]],
              outbox |-> [r \in Relays |-> IF r \in W THEN <<>> ELSE outbox[r]]]

\* The entries the consumer group of relay r has not acknowledged: those
\* delivered to its consumer and those not delivered yet.
Backlog(r) == Len(pending[r]) + Cardinality(Unread(r))

\* What the relays have in hand that can still add an entry: the children
\* that have not closed, and the XADD commands sent and not executed.
InHand ==
    Len(childrenS[1]) + Len(outbox[1])
      + (IF 2 \in Relays THEN Len(childrenS[2]) + Len(outbox[2]) ELSE 0)

\* The bound on the stream: a producer outside the relays waits while some
\* consumer group has MaxStream entries to handle, those to come from the
\* relays included.
Room == \A r \in Relays : Backlog(r) + InHand < MaxStream

\* The loop of relay r may call processMessage: a reply has arrived and the
\* event loop is idle, or the for loop over the entries of a reply goes on
\* (processMessage is synchronous, nothing runs between two entries).
Turn(r) ==
    \/ last.op = "idle"
    \/ last.op = "processMessage" /\ last.proc = r /\ last.left > 0

\* The entries of the reply the loop is at that are not handled yet, the one
\* at hand included; count is the COUNT of the command.
Left(r, count) ==
    IF last.op = "idle" THEN Min(count, Len(pending[r])) ELSE last.left

\* The children processMessage has spawned: none when it did not get as far as
\* spawn, or when spawn threw.
Children(res, msg, hops) ==
    IF res.outcome = "Injected"
    THEN << [depth |-> messageDepth(msg), srcDepth |-> msg.depth, hops |-> hops] >>
    ELSE <<>>

\* Module load and main() up to its first await: the connection is created
\* and XGROUP CREATE is sent.
StreamStart(r) ==
    /\ variant = "stream" /\ r \in Relays /\ pcS[r] = "start" /\ last.op = "idle"
    /\ pcS' = [pcS EXCEPT ![r] = "creating"]
    /\ connsS' = [connsS EXCEPT ![r] = 1]
    /\ UNCHANGED <<tool, variant, clock, lastAdmit, last, varsP, envS, binS, exitS, lastInjectTime, childrenS, stream, pending, outbox>>

\* The reply to XGROUP CREATE arrives and main() goes on to the pending loop.
\* An error that is not BUSYGROUP is thrown again, and main().catch exits with
\* status 1.
StreamGroupReply(r, reply) ==
    /\ variant = "stream" /\ r \in Relays /\ pcS[r] = "creating" /\ last.op = "idle"
    /\ IF reply = "ERR"
       THEN /\ pcS' = [pcS EXCEPT ![r] = "exited"]
            /\ exitS' = [exitS EXCEPT ![r] = 1]
       ELSE /\ pcS' = [pcS EXCEPT ![r] = "pending"]
            /\ exitS' = exitS
    /\ UNCHANGED <<tool, variant, clock, lastAdmit, last, varsP, envS, binS, connsS, lastInjectTime, childrenS, stream, pending, outbox>>

\* process.on('SIGINT') of the stream relay: exit(0), nothing is disconnected
\* or acknowledged.  The handler is installed before main() is called; the
\* handlers of the children end with the process, and the server drops what
\* the connection had sent behind a blocked read.  The relays of a mesh are
\* left running: the signal is studied on a relay alone.
StreamShutdown(r) ==
    /\ variant = "stream" /\ r \in Relays /\ last.op = "idle"
    /\ ~Mesh
    /\ r \in Looping \/ pcS[r] = "creating"
    /\ pcS' = [pcS EXCEPT ![r] = "exited"]
    /\ exitS' = [exitS EXCEPT ![r] = 0]
    /\ childrenS' = [childrenS EXCEPT ![r] = <<>>]
    /\ outbox' = [outbox EXCEPT ![r] = <<>>]
    /\ UNCHANGED <<tool, variant, clock, lastAdmit, last, varsP, envS, binS, connsS, lastInjectTime, stream, pending>>

\* One call of processMessage in the pending loop: XREADGROUP with id '0'
\* returns the oldest entries delivered to the consumer and not acknowledged
\* (at most PENDING_COUNT at a time), and the for loop hands them to
\* processMessage in order.
StreamPending(r) ==
    /\ variant = "stream" /\ r \in Relays /\ pcS[r] = "pending" /\ Turn(r)
    /\ pending[r] # <<>>
    /\ LET entry == Head(pending[r])
           msg == fieldsToObject(entry.fields)
           res == processMessage(r, msg, clock, lastInjectTime[r])
           spawned == Children(res, msg, entry.hops)
           left == Left(r, PENDING_COUNT)
           rest == xack(pending[r], 1, xacks(r, msg))
       IN  /\ lastAdmit' = Logged(r, "processMessage", res.outcome, clock)
           /\ Len(childrenS[r]) + Len(spawned) <= MaxChildren
           /\ (last.op = "idle" /\ left > 1) => Len(childrenS[r]) < MaxChildren
           /\ lastInjectTime' = [lastInjectTime EXCEPT ![r] = res.lastInject]
           /\ childrenS' = [childrenS EXCEPT ![r] = @ \o spawned]
           /\ pending' = [pending EXCEPT ![r] = rest]
           /\ last' = [Idle EXCEPT !.op = "processMessage", !.relay = AGENT_ID(r),
                                   !.proc = r, !.prior = lastAdmit[r],
                                   !.msg = msg, !.now = clock,
                                   !.before = lastInjectTime[r],
                                   !.after = res.lastInject,
                                   !.outcome = res.outcome, !.inj = res.inj,
                                   !.hops = entry.hops,
                                   !.acks = xacks(r, msg), !.phase = pcS[r],
                                   !.left = left - 1,
                                   !.held = Len(pending[r]), !.unacked = Len(rest)]
    /\ UNCHANGED <<tool, variant, clock, varsP, envS, binS, pcS, exitS, connsS, stream, outbox>>

\* The pending loop reads no unacknowledged entry and ends; the read loop
\* sends its first XREADGROUP with id '>', which delivers what the stream holds
\* for the group.
StreamPendingDone(r) ==
    /\ variant = "stream" /\ r \in Relays /\ pcS[r] = "pending" /\ last.op = "idle"
    /\ pending[r] = <<>>
    /\ pcS' = [pcS EXCEPT ![r] = "listening"]
    /\ pending' = [pending EXCEPT ![r] = Batch(r)]
    /\ stream' = Delivered(r)
    /\ UNCHANGED <<tool, variant, clock, lastAdmit, last, varsP, envS, binS, exitS, connsS, lastInjectTime, childrenS, outbox>>

\* A producer outside the relays adds an entry (XADD).  hops counts the
\* injections on the causal chain of an entry; seen is the set of relays whose
\* consumer group has delivered it.
Xadd(fields) ==
    /\ variant = "stream" /\ last.op = "idle"
    /\ Room
    /\ fields \in (IF Mesh THEN OriginEntries ELSE ExternalEntries)
    /\ LET served == Serve(<< [fields |-> fields, hops |-> 0] >>, Waiting)
       IN  /\ stream' = served.stream
           /\ pending' = served.pending
           /\ outbox' = served.outbox
    /\ UNCHANGED <<tool, variant, clock, lastAdmit, last, varsP, envS, binS, pcS, exitS, connsS, lastInjectTime, childrenS>>

\* The XREADGROUP relay r is blocked in returns nothing after BLOCK
\* POLL_INTERVAL_MS, and the server executes the XADD commands the connection
\* has sent in the meantime.
StreamTimeout(r) ==
    /\ variant = "stream" /\ r \in Waiting /\ last.op = "idle"
    /\ pcS' = [pcS EXCEPT ![r] = "polled"]
    /\ LET served == Serve(outbox[r], Waiting \ {r})
       IN  /\ stream' = served.stream
           /\ pending' = served.pending
           /\ outbox' = [served.outbox EXCEPT ![r] = <<>>]
    /\ UNCHANGED <<tool, variant, clock, lastAdmit, last, varsP, envS, binS, exitS, connsS, lastInjectTime, childrenS>>

\* The read loop gets the empty reply (results is null) and sends the next
\* XREADGROUP, which delivers what the stream holds for the group.
StreamReadNull(r) ==
    /\ variant = "stream" /\ r \in Relays /\ pcS[r] = "polled" /\ last.op = "idle"
    /\ pcS' = [pcS EXCEPT ![r] = "listening"]
    /\ pending' = [pending EXCEPT ![r] = Batch(r)]
    /\ stream' = Delivered(r)
    /\ UNCHANGED <<tool, variant, clock, lastAdmit, last, varsP, envS, binS, exitS, connsS, lastInjectTime, childrenS, outbox>>

\* One call of processMessage in the read loop: the reply to XREADGROUP with
\* id '>' has arrived, its entries are on the pending entries list of the
\* consumer since the server delivered them, and the for loop hands them to
\* processMessage in order.  After the last one the loop sends the next
\* XREADGROUP, which delivers what the stream holds for the group by then.
StreamRead(r) ==
    /\ variant = "stream" /\ r \in Relays /\ pcS[r] = "listening" /\ Turn(r)
    /\ pending[r] # <<>>
    /\ LET entry == Head(pending[r])
           msg == fieldsToObject(entry.fields)
           res == processMessage(r, msg, clock, lastInjectTime[r])
           spawned == Children(res, msg, entry.hops)
           left == Left(r, READ_COUNT)
           rest == xack(pending[r], 1, xacks(r, msg))
       IN  /\ lastAdmit' = Logged(r, "processMessage", res.outcome, clock)
           /\ Len(childrenS[r]) + Len(spawned) <= MaxChildren
           /\ (last.op = "idle" /\ left > 1) => Len(childrenS[r]) < MaxChildren
           /\ lastInjectTime' = [lastInjectTime EXCEPT ![r] = res.lastInject]
           /\ childrenS' = [childrenS EXCEPT ![r] = @ \o spawned]
           /\ IF left = 1
              THEN /\ pending' = [pending EXCEPT ![r] = rest \o Batch(r)]
                   /\ stream' = Delivered(r)
              ELSE /\ pending' = [pending EXCEPT ![r] = rest]
                   /\ stream' = stream
           /\ last' = [Idle EXCEPT !.op = "processMessage", !.relay = AGENT_ID(r),
                                   !.proc = r, !.prior = lastAdmit[r],
                                   !.msg = msg, !.now = clock,
                                   !.before = lastInjectTime[r],
                                   !.after = res.lastInject,
                                   !.outcome = res.outcome, !.inj = res.inj,
                                   !.hops = entry.hops,
                                   !.acks = xacks(r, msg), !.phase = pcS[r],
                                   !.left = left - 1,
                                   !.held = Len(pending[r]), !.unacked = Len(rest)]
    /\ UNCHANGED <<tool, variant, clock, varsP, envS, binS, pcS, exitS, connsS, outbox>>

\* child.on('close', ...) of child i of relay r, with the exit code and the
\* trimmed stdout of the injector.  The XADD of the republish is sent on the
\* connection of the loops: the server executes it at once, unless the
\* connection is blocked in XREADGROUP, and then after that read has returned.
StreamClose(r, i, code, response) ==
    /\ variant = "stream" /\ r \in Looping /\ last.op = "idle"
    /\ OPENCLAW_BIN(r) = "openclaw"
    /\ i \in 1..Len(childrenS[r])
    /\ LET child == childrenS[r][i]
           out == Republished(r, child, code, response, clock)
           added == [k \in 1..Len(out) |-> [fields |-> out[k], hops |-> child.hops + 1]]
           served == IF r \in Waiting
                     THEN [stream |-> stream, pending |-> pending,
                           outbox |-> [outbox EXCEPT ![r] = @ \o added]]
                     ELSE Serve(added, Waiting)
       IN  /\ stream' = served.stream
           /\ pending' = served.pending
           /\ outbox' = served.outbox
           /\ childrenS' = [childrenS EXCEPT ![r] =
                               [j \in 1..(Len(@) - 1) |-> IF j < i THEN @[j] ELSE @[j + 1]]]
           /\ last' = [Idle EXCEPT !.op = "close", !.relay = AGENT_ID(r),
                                   !.now = clock, !.outcome = response,
                                   !.failed = (code # 0),
                                   !.hops = child.hops,
                                   !.child = <<child>>, !.repub = out,
                                   !.sent = IF out = <<>> THEN None
                                            ELSE Some(Envelope(AGENT_ID(r), response,
                                                               clock,
                                                               nextDepth(child.depth),
                                                               "message"))]
    /\ UNCHANGED <<tool, variant, clock, lastAdmit, varsP, envS, binS, pcS, exitS, connsS, lastInjectTime>>

\* The 'error' event of child i of relay r: the file OPENCLAW_BIN names could
\* not be executed (spawn reports ENOENT or EACCES through this event, after
\* it has returned).  The child has no 'error' listener, so the event is
\* thrown as an uncaught exception and the process ends; its children's
\* handlers end with it.
StreamChildError(r, i) ==
    /\ variant = "stream" /\ r \in Looping /\ last.op = "idle"
    /\ OPENCLAW_BIN(r) = "/nonexistent/openclaw"
    /\ i \in 1..Len(childrenS[r])
    /\ pcS' = [pcS EXCEPT ![r] = "crashed"]
    /\ exitS' = [exitS EXCEPT ![r] = 1]
    /\ childrenS' = [childrenS EXCEPT ![r] = <<>>]
    /\ outbox' = [outbox EXCEPT ![r] = <<>>]
    /\ last' = [Idle EXCEPT !.op = "error", !.relay = AGENT_ID(r), !.now = clock,
                            !.hops = childrenS[r][i].hops,
                            !.child = <<childrenS[r][i]>>,
                            !.failed = TRUE, !.threw = TRUE, !.phase = pcS[r]]
    /\ UNCHANGED <<tool, variant, clock, lastAdmit, varsP, envS, binS, connsS, lastInjectTime, stream, pending>>

(***************************************************************************)
(* Manual publish tool: actions                                            *)
(***************************************************************************)
\* The answers of Redis to PUBLISH: the number of receivers, or an error (the
\* command is refused).
PublishReplies == {"OK", "ERR"}

\* main() from `new Redis` to `await redis.publish(CHANNEL, msg)`: the payload
\* is built with the time of this step and PUBLISH is sent.
ToolSend(text) ==
    [tool EXCEPT !.pc = "running",
                 !.published = << [channel |-> publishCHANNEL,
                                   payload |-> ManualPayload(text, clock)] >>]

\* The tool after a run.  Beside a relay the tool is a command that is run
\* again and again: its run leaves it ready for the next one.
ToolEnd(status) ==
    IF variant = "tool" THEN [tool EXCEPT !.pc = "exited", !.exit = status]
    ELSE [tool EXCEPT !.pc = "start", !.published = <<>>]

\* main() of publish.js up to its first await: with an argument it sends
\* PUBLISH and awaits the reply, without one it awaits readStdin().
ToolMain ==
    /\ tool.pc = "start" /\ last.op = "idle"
    /\ tool' = IF OrEmpty(tool.run.argv) # "" THEN ToolSend(ManualText(tool.run)[1])
               ELSE [tool EXCEPT !.pc = "reading"]
    /\ UNCHANGED <<variant, clock, last, lastAdmit, varsP, varsS>>

\* readStdin() has resolved (at once on a terminal, else at the end of the
\* input): without a text main() exits with status 1 before it connects, with
\* one it sends PUBLISH and awaits the reply.
ToolStdin ==
    /\ tool.pc = "reading" /\ last.op = "idle"
    /\ LET text == ManualText(tool.run)
       IN  tool' = IF OrEmpty(text) = "" THEN ToolEnd(1) ELSE ToolSend(text[1])
    /\ UNCHANGED <<variant, clock, last, lastAdmit, varsP, varsS>>

\* The server executes the PUBLISH of the tool: the payload goes to the
\* subscribers of the channel, or the command is refused and nobody gets it.
\* The reply is on its way to the tool.
ToolPublish(reply) ==
    /\ tool.pc = "running" /\ last.op = "idle"
    /\ reply = "ERR" => variant = "tool"
    /\ IF reply = "ERR"
       THEN /\ tool' = [tool EXCEPT !.pc = "refused"]
            /\ last' = last
       ELSE /\ tool' = [tool EXCEPT !.pc = "acked"]
            /\ last' = [Idle EXCEPT !.op = "publish", !.now = clock,
                                    !.wire = Some(tool.published[1].payload),
                                    !.running = Running,
                                    !.receivers = Subscribers(publishCHANNEL)]
    /\ UNCHANGED <<variant, clock, lastAdmit, varsP, varsS>>

\* The reply has reached the tool: main() logs, disconnects and the process
\* ends with status 0; after an error reply main().catch logs it and exits
\* with status 1.
ToolReply ==
    /\ tool.pc \in {"acked", "refused"} /\ last.op = "idle"
    /\ tool' = ToolEnd(IF tool.pc = "acked" THEN 0 ELSE 1)
    /\ UNCHANGED <<variant, clock, last, lastAdmit, varsP, varsS>>

\* The test command of the README, run beside a relay:
\* redis-cli PUBLISH team-chat '{"from":"test",...}'.
ReadmeTest ==
    /\ variant \in {"pubsub", "stream"} /\ ~Mesh /\ last.op = "idle"
    /\ last' = [Idle EXCEPT !.op = "publish", !.now = clock,
                            !.wire = Some(ReadmePayload),
                            !.running = Running,
                            !.receivers = Subscribers(publishCHANNEL)]
    /\ UNCHANGED <<tool, variant, clock, lastAdmit, varsP, varsS>>

(***************************************************************************)
(* Environment: the event loop and the wall clock                          *)
(***************************************************************************)
\* The handler has returned; the event loop is idle again.  The for loop over
\* the entries of a reply returns after the last of them.
Return ==
    /\ last.op # "idle"
    /\ last.left = 0
    /\ last' = Idle
    /\ UNCHANGED <<tool, variant, clock, lastAdmit, varsP, varsS>>

Times == { Epoch + k * TickMs : k \in 0..MaxTicks }

\* Beside a relay a run of the tool takes less than a tick of the clock.
ToolQuick == variant = "tool" \/ tool.pc \in {"start", "absent"}

\* Time passes.
Tick ==
    /\ last.op = "idle" /\ ToolQuick
    /\ clock + TickMs \in Times
    /\ clock' = clock + TickMs
    /\ UNCHANGED <<tool, variant, last, lastAdmit, varsP, varsS>>

\* The wall clock is set back (Date.now() is not monotonic).  The clock of a
\* mesh runs forward: the set-back is studied on a relay alone.
ClockSetBack ==
    /\ last.op = "idle" /\ ~Mesh /\ ToolQuick
    /\ \E t \in Times : t < clock /\ clock' = t
    /\ UNCHANGED <<tool, variant, last, lastAdmit, varsP, varsS>>

Init ==
    /\ clock = Epoch
    /\ last = Idle
    /\ exitP = -1
    /\ connsP = 0
    /\ lastInject = 0
    /\ childrenP = [c \in ChildClasses |-> 0]
    /\ stream = <<>>
    /\ \/ /\ variant = "pubsub"
          /\ envP \in PubSubEnvs
          /\ pcP = "start"
          /\ envS = <<>>
          /\ binS = <<>>
          /\ tool = IF envP.AGENT_NAME = "choa"
                    THEN [run |-> BusRun, pc |-> "start", exit |-> -1, published |-> <<>>]
                    ELSE [run |-> NoTool, pc |-> "absent", exit |-> -1, published |-> <<>>]
       \/ /\ variant = "tool"
          /\ envP = NoEnv
          /\ pcP = "absent"
          /\ envS = <<>>
          /\ binS = <<>>
          /\ \E run \in ToolRuns :
                tool = [run |-> run, pc |-> "start", exit |-> -1, published |-> <<>>]
       \/ /\ variant = "stream"
          /\ envP = NoEnv
          /\ pcP = "absent"
          /\ envS \in StreamEnvs
          /\ binS \in (IF Len(envS) = 1 THEN { <<bin>> : bin \in Injectors }
                       ELSE { [r \in DOMAIN envS |-> "openclaw"] })
          /\ tool = IF binS = <<"openclaw">>
                    THEN [run |-> BusRun, pc |-> "start", exit |-> -1, published |-> <<>>]
                    ELSE [run |-> NoTool, pc |-> "absent", exit |-> -1, published |-> <<>>]
    /\ lastAdmit = IF variant = "pubsub" THEN <<None>> ELSE [r \in DOMAIN envS |-> None]
    /\ pcS = [r \in DOMAIN envS |-> "start"]
    /\ exitS = [r \in DOMAIN envS |-> -1]
    /\ connsS = [r \in DOMAIN envS |-> 0]
    /\ lastInjectTime = [r \in DOMAIN envS |-> 0]
    /\ childrenS = [r \in DOMAIN envS |-> <<>>]
    /\ outbox = [r \in DOMAIN envS |-> <<>>]
    /\ \E list \in PendingLists :
          pending = [r \in DOMAIN envS |-> IF Len(envS) = 1 THEN list ELSE <<>>]

Next ==
    \/ PubSubStart
    \/ \E err \in BOOLEAN : PubSubSubscribed(err)
    \/ PubSubMessage
    \/ \E class \in ChildClasses, err \in BOOLEAN : PubSubCallback(class, err)
    \/ \E chunk \in Chunks : PubSubStdin(chunk)
    \/ \E agentName \in {"choa", "sera"}, text \in BotTexts :
          PubSubAutoEcho(agentName, text)
    \/ PubSubShutdown
    \/ \E r \in {1, 2} : StreamStart(r)
    \/ \E r \in {1, 2}, reply \in GroupReplies : StreamGroupReply(r, reply)
    \/ \E r \in {1, 2} : StreamShutdown(r)
    \/ \E r \in {1, 2} : StreamPending(r)
    \/ \E r \in {1, 2} : StreamPendingDone(r)
    \/ \E fields \in ExternalEntries : Xadd(fields)
    \/ \E r \in {1, 2} : StreamTimeout(r)
    \/ \E r \in {1, 2} : StreamReadNull(r)
    \/ \E r \in {1, 2} : StreamRead(r)
    \/ \E r \in {1, 2}, i \in 1..MaxChildren, code \in ExitCodes, response \in Responses :
          StreamClose(r, i, code, response)
    \/ \E r \in {1, 2}, i \in 1..MaxChildren : StreamChildError(r, i)
    \/ ToolMain
    \/ ToolStdin
    \/ \E reply \in PublishReplies : ToolPublish(reply)
    \/ ToolReply
    \/ ReadmeTest
    \/ Return
    \/ Tick
    \/ ClockSetBack

Spec == Init /\ [][Next]_vars

(***************************************************************************)
(* Properties                                                              *)
(***************************************************************************)
\* The step just taken handled one envelope.
IsHandler == last.op \in {"message", "processMessage"}

\* The envelope just handled is an echo (the pub/sub relay alone knows echoes).
IsEcho == last.op = "message" /\ last.msg.type = Some("echo")

\* The depth the envelope just handled carries on the wire (0 when absent).
WireDepth ==
    IF last.msg.depth = None THEN 0
    ELSE IF last.op = "processMessage" THEN last.msg.depth[1].num
    ELSE last.msg.depth[1]

\* The payload just handled is not a well-formed envelope: not JSON, not an
\* object, or without `from` or without `text`.
Malformed ==
    \/ last.json \in {"invalid", "null", "primitive"}
    \/ last.msg.from = None
    \/ last.msg.text = None

\* The targets injected into while handling the envelope.
InjTargets == { last.inj[i].target : i \in DOMAIN last.inj }

\* C1: an envelope whose `from` is the relay's own identity and that is not an
\* echo is rejected as self-originated, in sub.on("message") and in
\* processMessage alike: nothing is spawned for it (so nothing is injected and
\* nothing can be republished), whatever its text, depth and arrival time.
C1_SelfOriginRejected ==
    (IsHandler /\ last.msg.from = Some(last.relay) /\ ~IsEcho)
        => (last.outcome = "SelfOrigin" /\ last.inj = <<>> /\ ~last.threw)

\* A message of choa's own that mentions choa, at depth 0 and outside the
\* cooldown window, has been dropped by choa's pub/sub relay.
C1_Witness ==
    /\ last.op = "message" /\ last.relay = "choa"
    /\ last.msg.from = Some("choa") /\ last.msg.text = Some(TextChoa)
    /\ last.msg.depth = Some(0) /\ last.msg.type = None
    /\ last.now - last.before >= COOLDOWN_MS
    /\ last.outcome = "SelfOrigin" /\ last.inj = <<>>

\* C2: an envelope with depth >= maxDepth is rejected for DepthExceeded and
\* nothing is injected for it.  Stated for the envelopes the checks that come
\* before the depth ceiling in the Loop Guard and the routing let through: not
\* an echo, not self-originated and, in the stream relay, mentioning the
\* agent.
C2_DepthCeiling ==
    ( /\ IsHandler /\ ~IsEcho /\ WireDepth >= MAX_DEPTH
      /\ last.msg.from # Some(last.relay)
      /\ last.op = "processMessage"
            => (last.msg.text # None /\ isMentioned(last.msg.text[1], last.relay)) )
        => /\ last.outcome = "DepthExceeded"
           /\ last.inj = <<>>

\* The envelope just handled is a chat message that the guards before the
\* cooldown check let through: in sub.on("message") a payload other than null
\* that is not self-originated, not an echo and below the depth ceiling; in
\* processMessage an entry that is not self-originated and mentions the agent.
ReachesCooldownCheck ==
    \/ /\ last.op = "message" /\ last.json \in {"object", "primitive"}
       /\ last.msg.from # Some(last.relay) /\ ~IsEcho /\ WireDepth < MAX_DEPTH
    \/ /\ last.op = "processMessage" /\ last.msg.from # Some(last.relay)
       /\ last.msg.text # None /\ isMentioned(last.msg.text[1], last.relay)

\* C3: an envelope handled by a relay process less than the cooldown window
\* after its latest admission (or before it, by a clock set back) is not
\* admitted, and a chat message that gets as far as the cooldown check is
\* rejected there; so every admission is at least the window after the one
\* before it, and no two admissions are less than the window apart.
C3_CooldownSpacing ==
    (IsHandler /\ last.prior # None /\ last.now - last.prior[1] < COOLDOWN_MS)
        => /\ ~Admitted(last.op, last.outcome)
           /\ ReachesCooldownCheck => last.outcome = "Cooldown"

\* A relay that admitted an envelope has rejected for Cooldown an envelope
\* handled later, less than the window after the admission.
C3_Witness ==
    /\ IsHandler /\ last.outcome = "Cooldown"
    /\ last.prior # None
    /\ last.now > last.prior[1]
    /\ last.now - last.prior[1] < COOLDOWN_MS

\* C4 as stated: no injection of any kind is dispatched while handling an
\* envelope at a time less than the cooldown window after lastInjectAt.
C4_Original ==
    (IsHandler /\ ~Malformed /\ last.now - last.before < COOLDOWN_MS) => last.inj = <<>>

\* C4, amended: no injection of a chat message (kind = message) is dispatched
\* while handling an envelope at a time less than the cooldown window after
\* lastInjectAt; the injections of an echo fan-out are not subject to the
\* cooldown.
C4_CooldownInvariant ==
    (IsHandler /\ last.now - last.before < COOLDOWN_MS)
        => /\ \A i \in DOMAIN last.inj : last.inj[i].kind = "echo"
           /\ ~IsEcho => last.inj = <<>>

\* The stream relay of sera has skipped, inside the cooldown window, an entry
\* from another agent that mentions sera at depth 0.
C4_Witness ==
    /\ last.op = "processMessage" /\ last.relay = "sera"
    /\ last.msg.from = Some("test") /\ last.msg.text = Some(TextSera)
    /\ last.msg.depth = Some(Numeral(0))
    /\ last.before > 0 /\ last.now - last.before < COOLDOWN_MS
    /\ last.outcome = "Cooldown" /\ last.inj = <<>>

\* C5: handling an echo injects into exactly the locally hosted identities
\* other than the sender (resolved by id or alias, case-insensitively; nobody
\* when the sender is not hosted here); every injection carries the echo text
\* wrapped with its sender, carries no depth, asks for no delivery, and the
\* Loop Guard state is left alone.
C5_EchoFanOut ==
    (IsEcho /\ ~last.threw) =>
        LET sender == toLowerCase(last.msg.from[1])
            hosted == { localAgents[i] : i \in DOMAIN localAgents }
            resolved == { a \in hosted : a = sender \/ sender \in agentAliases(a) }
        IN  /\ InjTargets = hosted \ resolved
            /\ last.after = last.before
            /\ \A i \in DOMAIN last.inj :
                  /\ last.inj[i].kind = "echo"
                  /\ ~last.inj[i].deliver
                  /\ last.inj[i].text.tag = "echo"
                  /\ last.inj[i].text.from = last.msg.from[1]
                  /\ last.inj[i].text.depth = None
                  /\ last.msg.text # None => last.inj[i].text.text = last.msg.text[1]

\* Scenario C: an echo from choa at the relay hosting choa and sera has been
\* injected into sera alone.
C5_Witness ==
    /\ IsEcho /\ last.relay = "choa"
    /\ localAgents = <<"choa", "sera">>
    /\ last.msg.from = Some("choa") /\ last.msg.text = Some(TextHello)
    /\ Len(last.inj) = 1 /\ last.inj[1].target = "sera"

\* C6: an entry republished by the close handler carries the depth of the
\* consumed entry plus 1 (a missing depth counts as 0), and the marker the
\* pub/sub relay puts in an injected chat message is the depth of the consumed
\* envelope plus 1.
C6_DepthIncrement ==
    /\ (last.op = "close" /\ last.repub # <<>>) =>
          LET src == last.child[1].srcDepth
              consumed == IF src = None THEN 0 ELSE src[1].num
          IN  Field(last.repub[1], "depth") = Some(Numeral(consumed + 1))
    /\ last.op = "message" =>
          \A i \in DOMAIN last.inj :
              last.inj[i].kind = "message" => last.inj[i].text.depth = Some(WireDepth + 1)

\* The response to an entry consumed at depth 2 has been republished.
C6_Witness ==
    /\ last.op = "close" /\ last.repub # <<>>
    /\ last.child[1].srcDepth = Some(Numeral(2))

\* C7: in a mesh of relays whose agents answer by mentioning each other, a
\* chain that starts from an originating entry (depth 0) holds at most maxDepth
\* injections: hops, the number of injections behind an entry, never exceeds
\* maxDepth, a child in flight is at most the maxDepth-th injection of its
\* chain, and an entry with maxDepth injections behind it is never injected.
C7_BoundedRecursion ==
    Mesh =>
        /\ \A i \in DOMAIN stream : stream[i].hops <= MAX_DEPTH
        /\ \A r \in Relays : \A i \in DOMAIN pending[r] :
               pending[r][i].hops <= MAX_DEPTH
        /\ \A r \in Relays : \A i \in DOMAIN childrenS[r] :
               childrenS[r][i].hops + 1 <= MAX_DEPTH
        /\ (last.op = "processMessage" /\ last.hops >= MAX_DEPTH) => last.inj = <<>>

\* A chain of maxDepth injections has ended: its last entry mentions the
\* reading relay, arrives outside the cooldown window and is not injected.
C7_Witness ==
    /\ Mesh /\ last.op = "processMessage" /\ last.hops = MAX_DEPTH
    /\ last.now - last.before >= COOLDOWN_MS
    /\ last.outcome = "DepthExceeded" /\ last.inj = <<>>

\* C8: handling a malformed payload raises no uncaught error and dispatches no
\* injection (and so the relay is still there for the next envelope).
C8_Containment ==
    (IsHandler /\ Malformed) => (~last.threw /\ last.inj = <<>>)

\* C9: handling a (well-formed) chat message makes at most one injection
\* attempt per target.
C9_AtMostOnce ==
    (IsHandler /\ ~Malformed /\ ~IsEcho) =>
        \A i, j \in DOMAIN last.inj : i # j => last.inj[i].target # last.inj[j].target

\* C10: a relay whose configuration names no local identity creates no bus
\* connection and does nothing but exit with a non-zero status.
C10_FatalConfigError ==
    /\ (variant = "pubsub" /\ envP.AGENT_NAME = "")
          => /\ connsP = 0
             /\ pcP \in {"start", "exited"}
             /\ pcP = "exited" => exitP > 0
    /\ variant = "stream"
          => \A r \in Relays :
                envS[r] = None => (connsS[r] = 0 /\ pcS[r] \in {"start", "exited"})

\* The hosted agents the text of the envelope just handled mentions: among
\* localAgents by mentionPatterns in the pub/sub relay, the relay's own agent
\* by MENTION_MAP in the stream relay.
MentionedSet ==
    IF last.op = "processMessage"
    THEN { a \in {last.relay} : isMentioned(OrEmpty(last.msg.text), a) }
    ELSE { a \in { localAgents[i] : i \in DOMAIN localAgents } :
             mentionPatterns(a) \cap Occurs(OrEmpty(last.msg.text)) # {} }

\* C11: an admitted chat message at depth d whose text mentions exactly the
\* set M of hosted agents is injected into the agents of M and into nobody
\* else (nobody when M is empty), and every injected text carries the sender,
\* the marker depth d + 1 and the original text.  (How many attempts a target
\* gets is the subject of C9.)
C11_MentionRouted ==
    (IsHandler /\ ~Malformed /\ ~IsEcho /\ Admitted(last.op, last.outcome)) =>
        /\ InjTargets = MentionedSet
        /\ \A i \in DOMAIN last.inj :
              /\ last.inj[i].text.from = last.msg.from[1]
              /\ last.inj[i].text.depth = Some(WireDepth + 1)
              /\ last.inj[i].text.text = last.msg.text[1]

\* A JavaScript value with its type, so that a number and its decimal string
\* are different values (=== on them is false).
Typed(type, opt) == IF opt = None THEN None ELSE Some([type |-> type, value |-> opt[1]])

TypedNumeral(opt) ==
    IF opt = None THEN None ELSE Some([type |-> "string", value |-> opt[1].num])

\* The kind of a decoded envelope: a missing type is kind message.
KindOf(msg) == IF msg.type = None THEN Some("message") ELSE msg.type

\* decode of the pub/sub wire: the envelope read off JSON.parse(payload), where
\* from and text are strings and timestamp and depth are numbers.
DecodedJSON(msg) ==
    [ from |-> Typed("string", msg.from), text |-> Typed("string", msg.text),
      timestamp |-> Typed("number", msg.timestamp),
      depth |-> Typed("number", msg.depth),
      kind |-> Typed("string", KindOf(msg)) ]

\* decode of the stream wire: the envelope read off fieldsToObject(fields),
\* where every value is the string Redis returns.
DecodedFields(obj) ==
    [ from |-> Typed("string", obj.from), text |-> Typed("string", obj.text),
      timestamp |-> TypedNumeral(obj.timestamp), depth |-> TypedNumeral(obj.depth),
      kind |-> Typed("string", KindOf(obj)) ]

\* The envelope sent: from, text and kind are strings, timestamp and depth
\* are integers.
Present(e) ==
    [ from |-> Typed("string", Some(e.from)), text |-> Typed("string", Some(e.text)),
      timestamp |-> Typed("number", Some(e.timestamp)),
      depth |-> Typed("number", Some(e.depth)),
      kind |-> Typed("string", Some(e.kind)) ]

\* C12: decoding what the relay puts on the wire gives back the envelope it
\* sent, field for field: JSON.parse of the payload of publish in the pub/sub
\* relay, fieldsToObject of the field list of the republish in the stream
\* relay.
C12_RoundTrip ==
    /\ (last.op = "stdin" /\ last.sent # None)
          => DecodedJSON(JSONParse(last.wire[1]).msg) = Present(last.sent[1])
    /\ (last.op = "close" /\ last.sent # None)
          => DecodedFields(fieldsToObject(last.repub[1])) = Present(last.sent[1])

\* The text given to a run of the manual publish tool: the argument when it is
\* not empty, else what standard input holds between its leading and trailing
\* white space (nothing on a terminal).
GivenText ==
    IF tool.run.argv # None /\ tool.run.argv[1] # "" THEN tool.run.argv[1]
    ELSE IF tool.run.stdin = None THEN ""
    ELSE trim(tool.run.stdin[1])

\* The payload is a chat message at depth 0 from `from` with the text.
IsFreshEnvelope(payload, from, text) ==
    /\ payload.json = "object"
    /\ payload.fields.from = Some(from)
    /\ payload.fields.text = Some(text)
    /\ payload.fields.depth = Some(0)
    /\ payload.fields.type = None

\* C13: a run of the manual publish tool given a text that is not empty
\* publishes exactly one envelope, with depth 0, kind message, from = the local
\* identity and that text, and a run given no text publishes nothing; the
\* stdin listener of the pub/sub relay does the same for every chunk.
C13_ManualPublish ==
    /\ tool.pc = "exited" =>
          IF GivenText = "" THEN tool.published = <<>>
          ELSE /\ Len(tool.published) = 1
               /\ IsFreshEnvelope(tool.published[1].payload, publishAGENT_ID, GivenText)
    /\ last.op = "stdin" =>
          IF trim(last.outcome) = "" THEN last.wire = None
          ELSE /\ last.wire # None
               /\ IsFreshEnvelope(last.wire[1], last.relay, trim(last.outcome))

\* The tool, given no argument and "hello" followed by a newline on standard
\* input, has published one envelope with the text hello.
C13_Witness ==
    /\ tool.pc = "exited" /\ tool.run.argv = None /\ tool.run.stdin = Some("hello\n")
    /\ Len(tool.published) = 1
    /\ tool.published[1].payload.fields.text = Some(TextHello)

\* The envelope just handled is a well-formed chat message that the Loop Guard
\* is consulted about: every one in the pub/sub relay, the ones that mention
\* the agent in the stream relay (processMessage calls injectToOpenClaw for
\* those alone).
GuardConsulted ==
    /\ IsHandler /\ ~Malformed /\ ~IsEcho
    /\ last.op = "processMessage" => isMentioned(last.msg.text[1], last.relay)

\* C14: the Loop Guard reasons are evaluated in the order SelfOrigin,
\* DepthExceeded, Cooldown, and lastInjectAt is recorded on an admission only:
\* a chat message of another agent with depth >= maxDepth is rejected for
\* DepthExceeded whenever it arrives, and handling an envelope that is not
\* admitted leaves lastInjectAt as it was.
C14_RejectionOrder ==
    GuardConsulted =>
        /\ last.msg.from = Some(last.relay) => last.outcome = "SelfOrigin"
        /\ (last.msg.from # Some(last.relay) /\ WireDepth >= MAX_DEPTH)
              => last.outcome = "DepthExceeded"
        /\ last.after # last.before => Admitted(last.op, last.outcome)

\* C15: rejecting a chat message (SelfOrigin, DepthExceeded or Cooldown)
\* changes nothing: lastInjectAt is what it was and nothing is injected.
C15_RejectionNoOp ==
    (IsHandler /\ ~IsEcho /\ last.outcome \in {"SelfOrigin", "DepthExceeded", "Cooldown"})
        => (last.after = last.before /\ last.inj = <<>>)

\* C16: whenever handling a (well-formed) envelope changes lastInjectAt, at
\* least one injection is dispatched for that envelope.
C16_TracksInjections ==
    (IsHandler /\ ~Malformed /\ last.after # last.before) => last.inj # <<>>

\* C17: no step of a relay lowers lastInjectAt, whatever the clock reads, and
\* a step that changes it raises it by at least the cooldown window.
C17_NeverRewinds ==
    [][ /\ lastInject' = lastInject \/ lastInject' - lastInject >= COOLDOWN_MS
        /\ \A r \in DOMAIN lastInjectTime :
              \/ lastInjectTime'[r] = lastInjectTime[r]
              \/ lastInjectTime'[r] - lastInjectTime[r] >= COOLDOWN_MS ]_vars

\* After the wall clock was set back behind lastInjectAt, a chat message that
\* got as far as the cooldown check has been handled and lastInjectAt is what
\* it was.
C17_Witness ==
    /\ IsHandler /\ ReachesCooldownCheck
    /\ last.before > 0 /\ last.now < last.before
    /\ last.after = last.before

\* C18: an injector that fails (it cannot be spawned, exits with a non-zero
\* status or is killed at its timeout) is only logged: the handler of its
\* failure throws nothing and the relay process goes on.
C18_NonBlocking ==
    (last.op \in {"callback", "close", "error"} /\ last.failed)
        => /\ ~last.threw
           /\ variant = "pubsub" => pcP = "subscribed"
           /\ variant = "stream" => \A r \in Relays : pcS[r] # "crashed"

\* C19: a response is republished only by the close handler of a chat-message
\* injection whose injector exited with status 0 and wrote something, once,
\* as an entry from the local identity, of kind message (no type field), with
\* the response as text and the consumed depth plus 1; a failed or silent
\* injector, an injector that could not be spawned and the callbacks of the
\* pub/sub relay (echo injections included) republish nothing.
C19_RepublishConditions ==
    /\ last.op = "close" =>
          /\ last.repub # <<>> <=> (last.outcome # "" /\ ~last.failed)
          /\ Len(last.repub) <= 1
          /\ last.repub # <<>> =>
                LET obj == fieldsToObject(last.repub[1])
                IN  /\ obj.from = Some(last.relay)
                    /\ obj.text = Some(last.outcome)
                    /\ obj.type = None
                    /\ obj.depth = Some(Numeral(last.child[1].depth + 1))
    /\ last.op \in {"callback", "error", "message", "processMessage", "stdin",
                   "autoecho"}
          => last.repub = <<>>

\* An injector that wrote a reply but exited with a non-zero status has
\* closed, and nothing was republished.
C19_Witness ==
    /\ last.op = "close" /\ last.failed /\ last.outcome # ""
    /\ last.repub = <<>>

\* C20: a chat message whose `from` is a hosted identity (the main agent or
\* one added through EXTRA_AGENTS) is never injected into that identity.
C20_NoSelfTrigger ==
    (IsHandler /\ ~IsEcho /\ last.msg.from # None)
        => \A i \in DOMAIN last.inj : last.inj[i].target # last.msg.from[1]

\* The step just taken ended the relay by the uncaught 'error' event of a
\* child while main() was still in its pending loop.
EndedInPendingLoop == last.op = "error" /\ last.phase = "pending"

\* The call of processMessage just made has taken its entry, and nothing else,
\* off the pending entries list of the consumer, and a reply of the read loop
\* that is handled to its end leaves no entry unacknowledged, whether or not
\* an injector is still running.
AllAcknowledged ==
    last.op = "processMessage"
        => /\ last.unacked = last.held - 1
           /\ (last.phase = "listening" /\ last.left = 0) => last.unacked = 0

\* C21: every entry passed to processMessage is acknowledged exactly once
\* during that call, whatever the outcome and without waiting for the
\* injector, and the pending loop of a started relay runs to completion
\* before new entries are read.
C21_StreamAcknowledgement ==
    /\ last.op = "processMessage" => last.acks = 1
    /\ AllAcknowledged
    /\ ~EndedInPendingLoop

\* The running relays the payload just published is meant for: it is a chat
\* message at depth 0, its sender is no agent of the relay, its text mentions
\* an agent the relay hosts, and the relay is outside its cooldown window.
Addressees ==
    LET msg == last.wire[1].fields
        text == OrEmpty(msg.text)
    IN  { p \in last.running :
            /\ msg.depth = Some(0) /\ msg.type = None /\ msg.from # None
            /\ IF variant = "pubsub"
               THEN /\ \A i \in DOMAIN localAgents : localAgents[i] # msg.from[1]
                    /\ mentionedAgents(text) # <<>>
                    /\ ~InCooldown(last.now, lastInject)
               ELSE /\ AGENT_ID(p) # msg.from[1]
                    /\ isMentioned(text, AGENT_ID(p))
                    /\ ~InCooldown(last.now, lastInjectTime[p]) }

\* C22: an envelope published by the manual publish tool or by the test
\* command of the README while a relay with the default channel and stream is
\* running, with a sender that is not local, depth 0 and a text that mentions
\* an agent the relay hosts, outside the cooldown window, is consumed by that
\* relay and injected.  PUBLISH keeps nothing: an envelope that is delivered to
\* no relay when it is published is never consumed.
C22_ManualPublishReachesRelay ==
    last.op = "publish" => \A p \in Addressees : p \in last.receivers

====
